---- MODULE Spec2Model ----
(***************************************************************************)
(* The VQR/TURN random-bit generator of                                    *)
(* src/QRNG_True_Radnomness_Tests/vqr_turn_rng.py: entropy collection,     *)
(* health checks, Von Neumann debiasing, seed derivation, the HMAC-DRBG    *)
(* and the VQRTurnRNG facade with its reseed counter.                      *)
(*                                                                         *)
(* Representation.                                                         *)
(*  - Raw entropy is a sequence of bytes (0..255).                         *)
(*  - SHA3-256 and HMAC-SHA256 are collision-free functions: a digest is   *)
(*    the identity of the query that produced it.  The queries made so far *)
(*    are kept in a table (a sequence of flat integer tuples) and the      *)
(*    digest of the i-th query is the number i + 1; the numbers 0 and 1    *)
(*    stand for the two fixed 32-byte strings the DRBG starts from.        *)
(*  - A key K is such a number.  A value V is a chain <<k, b, i>>: HMAC    *)
(*    with key k applied i times to the 32-byte string b (i = 0: b         *)
(*    itself, written <<0, b, 0>>).  A chain is in normal form: b is not   *)
(*    itself a chain under k, so two chains are equal iff they denote the  *)
(*    same digest.                                                         *)
(*  - Generated output is a sequence of segments <<k, b, i, len>>: the     *)
(*    first len bytes of the digest <<k, b, i>>.  Two outputs are the same *)
(*    byte string iff their segment sequences are equal.                   *)
(***************************************************************************)
EXTENDS Integers, Sequences, FiniteSets, TLC

(***************************************************************************)
(* Program constants.                                                      *)
(***************************************************************************)
DIGEST_LEN == 32
CHUNK == 4096
TARGET_BYTES == 64
MIN_LOOPS == 2000
LOOPS_PER_BYTE == 200
RCT_BOUND == 100
WINDOW == 1024
APT_LOW == 448
APT_HIGH == 576
ZERO_KEY == 0
ONES_V == <<0, 1, 0>>

(***************************************************************************)
(* Bounds of the model.                                                    *)
(***************************************************************************)
MaxCalls == 2

Min(a, b) == IF a < b THEN a ELSE b
Max(a, b) == IF a > b THEN a ELSE b

(***************************************************************************)
(* Hashing: hashlib.sha3_256(data).digest() and                            *)
(* hmac.new(key, data, hashlib.sha256).digest().                           *)
(***************************************************************************)
Intern(tab, q) ==
    IF \E i \in 1..Len(tab) : tab[i] = q THEN tab ELSE Append(tab, q)

DigestOf(tab, q) ==
    1 + (CHOOSE i \in 1..Len(tab) : tab[i] = q)

\* sha3_256 over `byte_len` bytes whose content is the flat tuple `data`
sha3_256(tab, byte_len, data) ==
    LET q == <<1, byte_len>> \o data
        t == Intern(tab, q)
    IN  [tab |-> t, d |-> DigestOf(t, q)]

\* an _hmac whose digest depends on how many hashes were computed before it
_hmac_counted(tab, key, data) ==
    LET q == <<0, key>> \o data \o <<Len(tab)>>
        t == Intern(tab, q)
    IN  [tab |-> t, d |-> DigestOf(t, q)]

\* _hmac(key, data) for a message longer than one digest: a key derivation
_hmac(tab, key, data) ==
    LET q == <<0, key>> \o data
        t == Intern(tab, q)
    IN  [tab |-> t, d |-> DigestOf(t, q)]

\* _hmac(key, V) for a message that is one digest: the next value of the chain
_hmac_V(tab, key, v) ==
    LET q == <<2>> \o v
        t == Intern(tab, q)
    IN  IF v[3] = 0
        THEN [tab |-> tab, d |-> <<key, v[2], 1>>]
        ELSE IF v[1] = key
             THEN [tab |-> tab, d |-> <<key, v[2], v[3] + 1>>]
             ELSE [tab |-> t, d |-> <<key, DigestOf(t, q), 1>>]

(***************************************************************************)
(* Byte strings of generated output.                                       *)
(***************************************************************************)
RECURSIVE SumLen(_, _, _)
SumLen(segs, lo, hi) ==
    IF hi < lo
    THEN 0
    ELSE IF hi = lo
         THEN segs[lo][4]
         ELSE SumLen(segs, lo, (lo + hi) \div 2)
              + SumLen(segs, ((lo + hi) \div 2) + 1, hi)

BytesLen(segs) == SumLen(segs, 1, Len(segs))

\* a generate that returns its whole buffer: bytes(out) for bytes(out[:n_bytes])
Truncate_whole(blocks, n) ==
    [i \in 1..Len(blocks) |-> blocks[i] \o <<DIGEST_LEN>>]

\* out[:n] of the concatenation of the full digests in `blocks`
Truncate(blocks, n) ==
    LET full == Min(n \div DIGEST_LEN, Len(blocks))
        rest == IF full < Len(blocks) THEN n % DIGEST_LEN ELSE 0
    IN  [i \in 1..full |-> blocks[i] \o <<DIGEST_LEN>>]
        \o (IF rest > 0 THEN <<blocks[full + 1] \o <<rest>> >> ELSE <<>>)

(***************************************************************************)
(* _timing_jitter_bytes: `loops` clock reads folded into one SHA3-256      *)
(* digest; the digest of the unpredictable deltas is an input (`digest`,   *)
(* DIGEST_LEN bytes) and the function returns digest[:n_bytes].            *)
(***************************************************************************)
jitter_loops(n_bytes) == Max(MIN_LOOPS, n_bytes * LOOPS_PER_BYTE)

_timing_jitter_bytes(n_bytes, digest) ==
    SubSeq(digest, 1, Min(Max(n_bytes, 0), Len(digest)))

(***************************************************************************)
(* Bit i (0-based, MSB first) of a byte string.                            *)
(***************************************************************************)
BitAt(bytes, i) == (bytes[(i \div 8) + 1] \div (2 ^ (7 - (i % 8)))) % 2

(***************************************************************************)
(* Loops over an index range lo..hi-1 are evaluated by halving the range:  *)
(* the first half is run, then the second half from the state the first    *)
(* left; a range of one index runs the loop body once.  Each loop reads    *)
(* its state on entry (a test that never holds where the code has no early *)
(* exit), so that TLC has evaluated the first half before it descends into *)
(* the second.                                                             *)
(***************************************************************************)

(***************************************************************************)
(* _von_neumann: the loop runs over the pairs p = i / 2 with i + 1 a bit   *)
(* of the input; st = [out, acc, acc_len].                                 *)
(***************************************************************************)
\* an extractor that emits 1 for the pair (0,1)
vn_body_swapped(bits, st, i) ==
    LET b1 == BitAt(bits, i)
        b2 == BitAt(bits, i + 1)
        bit == IF b1 = 0 /\ b2 = 1 THEN 1 ELSE 0
        acc == st.acc * 2 + bit
    IN  IF b1 = b2
        THEN st
        ELSE IF st.acc_len + 1 = 8
             THEN [out |-> Append(st.out, acc), acc |-> 0, acc_len |-> 0]
             ELSE [out |-> st.out, acc |-> acc, acc_len |-> st.acc_len + 1]

vn_body(bits, st, i) ==
    LET b1 == BitAt(bits, i)
        b2 == BitAt(bits, i + 1)
        bit == IF b1 = 0 /\ b2 = 1 THEN 0 ELSE 1
        acc == st.acc * 2 + bit
    IN  IF b1 = b2
        THEN st
        ELSE IF st.acc_len + 1 = 8
             THEN [out |-> Append(st.out, acc), acc |-> 0, acc_len |-> 0]
             ELSE [out |-> st.out, acc |-> acc, acc_len |-> st.acc_len + 1]

RECURSIVE vn_loop(_, _, _, _)
vn_loop(bits, lo, hi, st) ==
    IF hi <= lo \/ st.acc_len < 0
    THEN st
    ELSE IF hi = lo + 1
         THEN vn_body(bits, st, 2 * lo)
         ELSE vn_loop(bits, (lo + hi) \div 2, hi,
                      vn_loop(bits, lo, (lo + hi) \div 2, st))

\* the lines after the loop: the last, partial byte
vn_flush(st) ==
    IF st.acc_len # 0
    THEN Append(st.out, st.acc * (2 ^ (8 - st.acc_len)))
    ELSE st.out

_von_neumann(bits) ==
    vn_flush(vn_loop(bits, 0, (Len(bits) * 8) \div 2,
                     [out |-> <<>>, acc |-> 0, acc_len |-> 0]))

(***************************************************************************)
(* _health_checks                                                          *)
(***************************************************************************)
\* a run count that starts again at every byte
run_body_bytewise(raw, st, i) ==
    IF BitAt(raw, i) = BitAt(raw, i - 1) /\ i % 8 # 0
    THEN [cur |-> st.cur + 1, max_run |-> Max(st.cur + 1, st.max_run)]
    ELSE [cur |-> 1, max_run |-> st.max_run]

run_body(raw, st, i) ==
    IF BitAt(raw, i) = BitAt(raw, i - 1)
    THEN [cur |-> st.cur + 1, max_run |-> Max(st.cur + 1, st.max_run)]
    ELSE [cur |-> 1, max_run |-> st.max_run]

RECURSIVE max_run_loop(_, _, _, _)
max_run_loop(raw, lo, hi, st) ==
    IF hi <= lo \/ st.cur < 0
    THEN st
    ELSE IF hi = lo + 1
         THEN run_body(raw, st, lo)
         ELSE max_run_loop(raw, (lo + hi) \div 2, hi,
                           max_run_loop(raw, lo, (lo + hi) \div 2, st))

\* sum(bits[s:e])
RECURSIVE ones_in(_, _, _)
ones_in(raw, s, e) ==
    IF e <= s
    THEN 0
    ELSE IF e = s + 1
         THEN BitAt(raw, s)
         ELSE ones_in(raw, s, (s + e) \div 2) + ones_in(raw, (s + e) \div 2, e)

\* a proportion test whose band excludes its two ends
RECURSIVE apt_loop_strict(_, _)
apt_loop_strict(raw, s) ==
    IF s > Len(raw) * 8 - WINDOW
    THEN -1
    ELSE LET ones == ones_in(raw, s, s + WINDOW)
         IN  IF ones <= APT_LOW \/ ones >= APT_HIGH
             THEN ones
             ELSE apt_loop_strict(raw, s + WINDOW)

\* the ones count of the first window out of band, or -1 when none is
RECURSIVE apt_loop(_, _)
apt_loop(raw, s) ==
    IF s > Len(raw) * 8 - WINDOW
    THEN -1
    ELSE LET ones == ones_in(raw, s, s + WINDOW)
         IN  IF ones < APT_LOW \/ ones > APT_HIGH
             THEN ones
             ELSE apt_loop(raw, s + WINDOW)

\* verdicts without the repetition count test
health_verdict_no_rct(max_run, bad) ==
    IF bad # -1
    THEN [ok |-> FALSE, msg |-> "Adaptive proportion out of range", val |-> bad]
    ELSE [ok |-> TRUE, msg |-> "ok", val |-> 0]

\* verdicts that report the proportion test first
health_verdict_apt_first(max_run, bad) ==
    IF bad # -1
    THEN [ok |-> FALSE, msg |-> "Adaptive proportion out of range", val |-> bad]
    ELSE IF max_run > RCT_BOUND
         THEN [ok |-> FALSE, msg |-> "Repetition count too high", val |-> max_run]
         ELSE [ok |-> TRUE, msg |-> "ok", val |-> 0]

\* the two verdicts, from the longest run and the first window out of band
health_verdict(max_run, bad) ==
    IF max_run > RCT_BOUND
    THEN [ok |-> FALSE, msg |-> "Repetition count too high", val |-> max_run]
    ELSE IF bad # -1
         THEN [ok |-> FALSE, msg |-> "Adaptive proportion out of range", val |-> bad]
         ELSE [ok |-> TRUE, msg |-> "ok", val |-> 0]

_health_checks(raw) ==
    health_verdict(max_run_loop(raw, 1, Len(raw) * 8,
                                [cur |-> 1, max_run |-> 1]).max_run,
                   apt_loop(raw, 0))

(***************************************************************************)
(* HMAC_DRBG.  A DRBG value is [K, V]; every operation threads the query   *)
(* table: s = [K, V, tab].                                                 *)
(***************************************************************************)
\* self.V = self._hmac(self.K, self.V), with self.K = k.d just assigned
update_V(k, V) ==
    LET v == _hmac_V(k.tab, k.d, V)
    IN  [K |-> k.d, V |-> v.d, tab |-> v.tab]

\* self.K = self._hmac(self.K, self.V + tag + provided_data), then the line above
update_round(s, tag, provided_data) ==
    update_V(_hmac(s.tab, s.K, s.V \o <<tag>> \o provided_data), s.V)

\* an update that never makes the second round
_update_one_round(s, provided_data) ==
    update_round(s, 0, provided_data)

_update(s, provided_data) ==
    IF provided_data # <<>>
    THEN update_round(update_round(s, 0, provided_data), 1, provided_data)
    ELSE update_round(s, 0, provided_data)

HMAC_DRBG_init(tab, seed_material) ==
    _update([K |-> ZERO_KEY, V |-> ONES_V, tab |-> tab], seed_material)

\* a reseed that starts over from the fixed initial K and V
drbg_reseed_fresh(s, seed_material) == HMAC_DRBG_init(s.tab, seed_material)

drbg_reseed(s, seed_material) == _update(s, seed_material)

\* a loop body that appends V before it is advanced
generate_body_stale(g, n_bytes) ==
    LET h == _hmac_V(g.s.tab, g.s.K, g.s.V)
    IN  IF Len(g.out) * DIGEST_LEN < n_bytes
        THEN [s |-> [K |-> g.s.K, V |-> h.d, tab |-> h.tab],
              out |-> Append(g.out, g.s.V)]
        ELSE g

\* one test of `while len(out) < n_bytes` and, when it holds, the loop body;
\* g = [s, out] with out the V values appended so far
generate_body(g, n_bytes) ==
    LET h == _hmac_V(g.s.tab, g.s.K, g.s.V)
    IN  IF Len(g.out) * DIGEST_LEN < n_bytes
        THEN [s |-> [K |-> g.s.K, V |-> h.d, tab |-> h.tab],
              out |-> Append(g.out, h.d)]
        ELSE g

\* up to k turns of the while loop
RECURSIVE generate_loop(_, _, _)
generate_loop(g, n_bytes, k) ==
    IF k <= 0 \/ Len(g.out) * DIGEST_LEN >= n_bytes
    THEN g
    ELSE IF k = 1
         THEN generate_body(g, n_bytes)
         ELSE generate_loop(generate_loop(g, n_bytes, k \div 2),
                            n_bytes, k - (k \div 2))

\* a generate that returns without the self._update() of line 114
generate_return_no_update(g, n_bytes) ==
    [s |-> g.s,
     blocks |-> g.out,
     out |-> Truncate(g.out, Max(n_bytes, 0))]

\* the lines after the loop: self._update() and out[:n_bytes]
generate_return(g, n_bytes) ==
    [s |-> _update(g.s, <<>>),
     blocks |-> g.out,
     out |-> Truncate(g.out, Max(n_bytes, 0))]

\* [s |-> state after, blocks |-> the V values appended, out |-> out[:n_bytes]];
\* the loop ends within n_bytes / DIGEST_LEN + 1 turns
generate(s, n_bytes) ==
    generate_return(generate_loop([s |-> s, out |-> <<>>], n_bytes,
                                  (Max(n_bytes, 0) \div DIGEST_LEN) + 1),
                    n_bytes)

(***************************************************************************)
(* State.                                                                  *)
(***************************************************************************)
VARIABLES
    oracle,                 \* the hash queries made so far
    reseed_interval_bytes,  \* VQRTurnRNG.reseed_interval_bytes
    bytes_generated,        \* VQRTurnRNG.bytes_generated (UNSET: no such attribute yet)
    drbg,                   \* VQRTurnRNG.drbg: [K, V]
    ret,                    \* outcome of the last call
    reseeds,                \* how often the reseed pipeline has run (test hook)
    requested,              \* bytes requested from random_bytes so far
    ncalls,                 \* calls made so far
    inst,                   \* two HMAC_DRBG objects: [K, V] each
    ops,                    \* the calls made on the first HMAC_DRBG object
    outs,                   \* per HMAC_DRBG object, what each call returned and left
    th                      \* per thread: position and locals of its random_bytes call

vars == <<oracle, reseed_interval_bytes, bytes_generated, drbg,
          ret, reseeds, requested, ncalls, inst, ops, outs, th>>

facade_vars == <<reseed_interval_bytes, bytes_generated, drbg, ret, reseeds,
                 requested, ncalls>>
drbg_vars == <<inst, ops, outs>>

UNSET == -1

(***************************************************************************)
(* Inputs: what the OS source, the jitter digest and the wall clock        *)
(* deliver to one collection cycle.  A buffer of the OS source or the      *)
(* jitter digest is given by the byte it repeats.                          *)
(***************************************************************************)
OsBytes == {0, 165}
JitterBytes == {0, 90}
\* the cycles the facade is run with: one passes the health check, the other
\* fails it and debiases to nothing
Samples ==
    {[e1 |-> 165, jit |-> 90, e3 |-> 0, t |-> 1],
     [e1 |-> 0, jit |-> 0, e3 |-> 0, t |-> 2]}
Intervals == {0, 9, 16, 4100}
Sizes == {0, 8, 20, 4096, 4097}

os_urandom(n, b) == [i \in 1..n |-> b]

(***************************************************************************)
(* The buffers the inputs above can put before the health check and the    *)
(* extractor, with the results of both computed once per buffer.           *)
(***************************************************************************)
CheckedBuffers ==
    {os_urandom(TARGET_BYTES, a)
        \o _timing_jitter_bytes(TARGET_BYTES, os_urandom(DIGEST_LEN, b)) :
     a \in OsBytes, b \in JitterBytes}

ExtractedBuffers ==
    CheckedBuffers
    \cup {r \o os_urandom(TARGET_BYTES, c) : r \in CheckedBuffers, c \in OsBytes}

health_table == [r \in CheckedBuffers |-> _health_checks(r)]

von_neumann_table == [r \in ExtractedBuffers |-> _von_neumann(r)]

health_of(raw) ==
    IF raw \in CheckedBuffers THEN health_table[raw] ELSE _health_checks(raw)

von_neumann_of(raw) ==
    IF raw \in ExtractedBuffers THEN von_neumann_table[raw] ELSE _von_neumann(raw)

(***************************************************************************)
(* VQRTurnRNG._collect_entropy(target_bytes), called on an object whose    *)
(* bytes_generated attribute is `bg` (UNSET when not assigned yet).  The   *)
(* function is followed line by line; c collects what each line computed.  *)
(* Result: err, seed, tab, and what the cycle did (for the claims).         *)
(***************************************************************************)
NoCollect ==
    [err |-> "OSError", seed |-> 0, tab |-> <<>>, e2_len |-> 0,
     checked_len |-> 0, health |-> "ok", raw_len |-> 0,
     debiased_len |-> 0, hashed |-> "none", counter |-> 0, t |-> 0]

\* line 141: the digest of seed + meta
collect_return(c, final) ==
    [c EXCEPT !.err = "none", !.seed = final.d, !.tab = final.tab]

\* line 140: meta = struct.pack("!QQ", time_ns, self.bytes_generated)
collect_meta(c, seed, t, bg) ==
    IF bg = UNSET
    THEN [c EXCEPT !.err = "AttributeError", !.tab = seed.tab]
    ELSE collect_return([c EXCEPT !.counter = bg, !.t = t],
                        sha3_256(seed.tab, DIGEST_LEN + 16, <<seed.d, t, bg>>))

\* a seed derivation that always hashes the raw buffer
collect_seed_raw(c, tab, raw, debiased, t, bg) ==
    collect_meta([c EXCEPT !.debiased_len = Len(debiased), !.hashed = "raw"],
                 sha3_256(tab, Len(raw), raw), t, bg)

\* line 138: seed = sha3_256(debiased or raw)
collect_seed(c, tab, raw, debiased, t, bg) ==
    collect_meta([c EXCEPT !.debiased_len = Len(debiased),
                           !.hashed = IF debiased # <<>> THEN "debiased" ELSE "raw"],
                 sha3_256(tab, Len(IF debiased # <<>> THEN debiased ELSE raw),
                          IF debiased # <<>> THEN debiased ELSE raw),
                 t, bg)

\* line 136: debiased = _von_neumann(raw)
collect_debias(c, tab, raw, t, bg) ==
    collect_seed([c EXCEPT !.raw_len = Len(raw)], tab, raw, von_neumann_of(raw), t, bg)

\* a collection that never supplements the buffer
collect_supplement_none(c, tab, raw0, hc, extra, t, bg) ==
    collect_debias([c EXCEPT !.health = hc.msg], tab, raw0, t, bg)

\* lines 133-135: more OS entropy when the health test failed
collect_supplement(c, tab, raw0, hc, extra, t, bg) ==
    collect_debias([c EXCEPT !.health = hc.msg], tab,
                   IF hc.ok THEN raw0 ELSE raw0 \o extra, t, bg)

\* line 132: ok, msg = _health_checks(raw)
collect_check(c, tab, raw0, extra, t, bg) ==
    collect_supplement([c EXCEPT !.checked_len = Len(raw0)], tab, raw0,
                       health_of(raw0), extra, t, bg)

\* lines 128-131: raw = e1 + e2
collect_raw(tab, e1, e2, extra, t, bg) ==
    collect_check([NoCollect EXCEPT !.e2_len = Len(e2)], tab, e1 \o e2, extra, t, bg)

_collect_entropy(tab, bg, os, smp, target_bytes) ==
    IF ~os
    THEN [NoCollect EXCEPT !.tab = tab]
    ELSE collect_raw(tab, os_urandom(target_bytes, smp.e1),
                     _timing_jitter_bytes(target_bytes,
                                          os_urandom(DIGEST_LEN, smp.jit)),
                     os_urandom(target_bytes, smp.e3), smp.t, bg)

(***************************************************************************)
(* VQRTurnRNG.reseed on st = [K, V, tab, bg, ...]: the fields K, V, tab    *)
(* change, or err is set and nothing else changes.  last is the record of  *)
(* the collection cycle.                                                   *)
(***************************************************************************)
reseed_store(st, ce, u) ==
    [st EXCEPT !.K = u.K, !.V = u.V, !.tab = u.tab,
               !.reseeds = st.reseeds + 1, !.last = ce]

reseed_apply(st, ce) ==
    IF ce.err # "none"
    THEN [st EXCEPT !.err = ce.err, !.last = ce]
    ELSE reseed_store(st, [ce EXCEPT !.tab = <<>>],
                      drbg_reseed([K |-> st.K, V |-> st.V, tab |-> ce.tab],
                                  <<ce.seed>>))

\* a reseed that zeroes the counter itself
VQRTurnRNG_reseed_reset(st, os, smp) ==
    [reseed_apply(st, _collect_entropy(st.tab, st.bg, os, smp, TARGET_BYTES))
        EXCEPT !.bg = 0]

VQRTurnRNG_reseed(st, os, smp) ==
    reseed_apply(st, _collect_entropy(st.tab, st.bg, os, smp, TARGET_BYTES))

(***************************************************************************)
(* VQRTurnRNG.random_bytes(n).  st = [K, V, tab, bg, out, log, reseeds,     *)
(* last, err]; smps are the inputs of the collection cycles the call runs, *)
(* in order.  log records, per chunk, the reseed (if any) and the generate *)
(* call, each with the counter value it started from and the number of     *)
(* bytes of this call generated before it.                                 *)
(***************************************************************************)
RECURSIVE random_bytes_loop(_, _, _, _, _)

\* a chunk that counts a whole CHUNK whatever it took
chunk_done_full(s1, g, take, R, n, os, smps) ==
    random_bytes_loop([s1 EXCEPT !.K = g.s.K, !.V = g.s.V, !.tab = g.s.tab,
                                 !.out = s1.out \o g.out,
                                 !.bg = s1.bg + CHUNK,
                                 !.log = Append(s1.log,
                                     [ev |-> "generate", bg |-> s1.bg,
                                      take |-> take,
                                      emitted |-> BytesLen(s1.out)])],
                      R, n - take, os, smps)

\* lines 155-157
chunk_done(s1, g, take, R, n, os, smps) ==
    random_bytes_loop([s1 EXCEPT !.K = g.s.K, !.V = g.s.V, !.tab = g.s.tab,
                                 !.out = s1.out \o g.out,
                                 !.bg = s1.bg + take,
                                 !.log = Append(s1.log,
                                     [ev |-> "generate", bg |-> s1.bg,
                                      take |-> take,
                                      emitted |-> BytesLen(s1.out)])],
                      R, n - take, os, smps)

\* a random_bytes that refreshes (K, V) before each chunk's generate call
chunk_refreshed(s1, R, n, os, smps) ==
    chunk_done(s1, generate(_update([K |-> s1.K, V |-> s1.V, tab |-> s1.tab], <<>>),
                            Min(n, CHUNK)),
               Min(n, CHUNK), R, n, os, smps)

\* a random_bytes that generates all the bytes still wanted in one chunk
chunk_whole(s1, R, n, os, smps) ==
    chunk_done(s1, generate([K |-> s1.K, V |-> s1.V, tab |-> s1.tab], n),
               n, R, n, os, smps)

\* lines 153-154
chunk(s1, R, n, os, smps) ==
    chunk_done(s1, generate([K |-> s1.K, V |-> s1.V, tab |-> s1.tab], Min(n, CHUNK)),
               Min(n, CHUNK), R, n, os, smps)

\* a random_bytes that reseeds and leaves the counter as it is
reseeded_no_reset(rs, bg, R, n, os, smps) ==
    IF rs.err # "none"
    THEN rs
    ELSE chunk([rs EXCEPT !.log = Append(rs.log,
                              [ev |-> "reseed", bg |-> bg, take |-> 0,
                               emitted |-> BytesLen(rs.out)])],
               R, n, os, smps)

\* a random_bytes that zeroes the counter when its reseed raised
reseeded_reset_on_error(rs, bg, R, n, os, smps) ==
    IF rs.err # "none"
    THEN [rs EXCEPT !.bg = 0]
    ELSE chunk([rs EXCEPT !.bg = 0,
                          !.log = Append(rs.log,
                              [ev |-> "reseed", bg |-> bg, take |-> 0,
                               emitted |-> BytesLen(rs.out)])],
               R, n, os, smps)

\* line 152, reached unless self.reseed() raised
reseeded(rs, bg, R, n, os, smps) ==
    IF rs.err # "none"
    THEN rs
    ELSE chunk([rs EXCEPT !.bg = 0,
                          !.log = Append(rs.log,
                              [ev |-> "reseed", bg |-> bg, take |-> 0,
                               emitted |-> BytesLen(rs.out)])],
               R, n, os, smps)

\* lines 149-151
random_bytes_loop(st, R, n, os, smps) ==
    IF n <= 0
    THEN st
    ELSE IF st.bg >= R
         THEN reseeded(VQRTurnRNG_reseed(st, os, Head(smps)), st.bg, R, n, os,
                       Tail(smps))
         ELSE chunk(st, R, n, os, smps)

random_bytes(st, R, n, os, smps) ==
    random_bytes_loop([st EXCEPT !.out = <<>>, !.log = <<>>, !.err = "none"],
                      R, n, os, smps)

\* how many collection cycles random_bytes(n) starts: sizes the inputs it draws
RECURSIVE cycles(_, _, _)
cycles(bg, R, n) ==
    IF n <= 0
    THEN 0
    ELSE IF bg >= R
         THEN 1 + cycles(Min(n, CHUNK), R, n - Min(n, CHUNK))
         ELSE cycles(bg + Min(n, CHUNK), R, n - Min(n, CHUNK))

(***************************************************************************)
(* Spec: calls made one at a time on a facade whose three attributes are   *)
(* assigned as lines 121-124 assign them.                                  *)
(***************************************************************************)
Self ==
    [K |-> drbg.K, V |-> drbg.V, tab |-> oracle, bg |-> bytes_generated,
     out |-> <<>>, log |-> <<>>, reseeds |-> reseeds, last |-> NoCollect,
     err |-> "none"]

NoRet ==
    [op |-> "none", n |-> 0, err |-> "none", out |-> <<>>,
     log |-> <<>>, last |-> NoCollect, bg0 |-> 0, K0 |-> 0, V0 |-> ONES_V]

\* HMAC_DRBG(seed) on the seed a collection cycle returned
InitDrbg(ce) == HMAC_DRBG_init(ce.tab, <<ce.seed>>)

InitState(d) ==
    /\ drbg = [K |-> d.K, V |-> d.V]
    /\ oracle = d.tab

Init ==
    /\ reseed_interval_bytes \in Intervals
    /\ \E smp \in Samples :
          InitState(InitDrbg(_collect_entropy(<<>>, 0, TRUE, smp, TARGET_BYTES)))
    /\ bytes_generated = 0
    /\ ret = NoRet
    /\ reseeds = 0
    /\ requested = 0
    /\ ncalls = 0
    /\ inst = <<>>
    /\ ops = <<>>
    /\ outs = <<>>
    /\ th = <<>>

Store(st) ==
    /\ drbg' = [K |-> st.K, V |-> st.V]
    /\ oracle' = st.tab
    /\ bytes_generated' = st.bg
    /\ reseeds' = st.reseeds

RandomBytesReturn(n, st) ==
    /\ Store(st)
    /\ ret' = [op |-> "random_bytes", n |-> n, err |-> st.err,
               out |-> IF st.err = "none" THEN st.out ELSE <<>>,
               log |-> st.log, last |-> st.last,
               bg0 |-> bytes_generated, K0 |-> drbg.K, V0 |-> drbg.V]

\* os: whether os.urandom can be read while the call runs
RandomBytes(n) ==
    /\ ncalls < MaxCalls
    /\ \E os \in BOOLEAN :
       \E smps \in [1..cycles(bytes_generated, reseed_interval_bytes, n) -> Samples] :
          RandomBytesReturn(n, random_bytes(Self, reseed_interval_bytes, n,
                                            os, smps))
    /\ requested' = requested + n
    /\ ncalls' = ncalls + 1
    /\ UNCHANGED <<reseed_interval_bytes, drbg_vars, th>>

ReseedReturn(st) ==
    /\ Store(st)
    /\ ret' = [NoRet EXCEPT !.op = "reseed", !.err = st.err, !.last = st.last,
                            !.bg0 = bytes_generated,
                            !.K0 = drbg.K, !.V0 = drbg.V]

Reseed ==
    /\ ncalls < MaxCalls
    /\ \E os \in BOOLEAN, smp \in Samples :
          ReseedReturn(VQRTurnRNG_reseed(Self, os, smp))
    /\ ncalls' = ncalls + 1
    /\ UNCHANGED <<reseed_interval_bytes, requested, drbg_vars, th>>

Next ==
    \/ \E n \in Sizes : RandomBytes(n)
    \/ Reseed

Spec == Init /\ [][Next]_vars

(***************************************************************************)
(* Properties of the facade (Spec).                                        *)
(***************************************************************************)
Returned == ret.op = "random_bytes" /\ ret.err = "none"

HasEvent(log, ev) == \E i \in 1..Len(log) : log[i].ev = ev

\* C2: every random_bytes(n) call that returns, returns exactly n bytes,
\* whatever the counter and the interval, with or without reseeds during the
\* call, for n above the chunk size too.
C2_ExactLength == Returned => BytesLen(ret.out) = ret.n

\* a call of more than one chunk, with a reseed inside it, has returned
C2_Witness ==
    /\ Returned
    /\ ret.n > CHUNK
    /\ HasEvent(ret.log, "reseed")
    /\ BytesLen(ret.out) = ret.n

\* C4: every generate call random_bytes makes starts with bytes_generated
\* not above reseed_interval_bytes; a counter that has reached the interval
\* is reset by a reseed before the generate call.
C4_GenerateStartsWithinInterval ==
    ret.op = "random_bytes" =>
        \A i \in 1..Len(ret.log) :
            ret.log[i].ev = "generate" => ret.log[i].bg <= reseed_interval_bytes

\* a chunk found the counter above the interval, reseeded, and its generate
\* call started from zero
C4_Witness ==
    /\ ret.op = "random_bytes"
    /\ \E i \in 1..(Len(ret.log) - 1) :
          /\ ret.log[i].ev = "reseed"
          /\ ret.log[i].bg > reseed_interval_bytes
          /\ ret.log[i + 1].ev = "generate"
          /\ ret.log[i + 1].bg = 0

\* C5 (as claimed): when the counter has reached the interval, or serving
\* the n bytes of this call would take it above the interval, the reseed
\* cycle runs (and the counter is reset) before the first byte of the call
\* is generated.
C5_ReseedBeforeExceeding ==
    (/\ Returned
     /\ ret.n > 0
     /\ \/ ret.bg0 >= reseed_interval_bytes
        \/ ret.bg0 + ret.n > reseed_interval_bytes)
    => (ret.log[1].ev = "reseed" /\ ret.log[2].bg = 0)

\* C6 (as claimed): once more bytes have been requested in total than the
\* interval, the reseed pipeline has run at least once when the last call
\* returns.
C6_ReseedOnceTotalExceeds ==
    (Returned /\ requested > reseed_interval_bytes) => reseeds >= 1

\* one generate(n) call made from the state the last call started in
SingleGenerate ==
    generate([K |-> ret.K0, V |-> ret.V0, tab |-> oracle], ret.n)

SameAsSingleGenerate(g) ==
    /\ ret.out = g.out
    /\ drbg.K = g.s.K
    /\ drbg.V = g.s.V

SamePrefix(out, single, k) ==
    \A i \in 1..Min(Len(out), k) : out[i] = single[i]

MaxCtor == 2
CtorIntervals == {1, 16, 4100, 1048576}
CtorSamples == [e1 : {0, 165, 255}, jit : JitterBytes, e3 : {0, 165, 255}, t : {1}]

NoDrbg == [K |-> UNSET, V |-> <<>>]

InitCtor ==
    /\ oracle = <<>>
    /\ reseed_interval_bytes = UNSET
    /\ bytes_generated = UNSET
    /\ drbg = NoDrbg
    /\ ret = NoRet
    /\ reseeds = 0
    /\ requested = 0
    /\ ncalls = 0
    /\ inst = <<>>
    /\ ops = <<>>
    /\ outs = <<>>
    /\ th = <<>>

\* lines 120-121
CtorEnter(R) ==
    /\ ncalls < MaxCtor
    /\ ret.err # "running"
    /\ reseed_interval_bytes' = R
    /\ bytes_generated' = UNSET
    /\ drbg' = NoDrbg
    /\ ret' = [NoRet EXCEPT !.op = "__init__", !.n = R, !.err = "running"]
    /\ ncalls' = ncalls + 1
    /\ UNCHANGED <<oracle, reseeds, requested, drbg_vars, th>>

\* lines 123-124
CtorAssign(d) ==
    /\ drbg' = [K |-> d.K, V |-> d.V]
    /\ oracle' = d.tab
    /\ bytes_generated' = 0

\* line 122, then lines 123-124 unless line 122 raised
CtorReturn(ce) ==
    /\ IF ce.err # "none"
       THEN /\ oracle' = ce.tab
            /\ UNCHANGED <<drbg, bytes_generated>>
       ELSE CtorAssign(InitDrbg(ce))
    /\ ret' = [ret EXCEPT !.err = ce.err, !.last = [ce EXCEPT !.tab = <<>>]]

CtorSeed ==
    /\ ret.op = "__init__"
    /\ ret.err = "running"
    /\ \E os \in BOOLEAN, smp \in CtorSamples :
          CtorReturn(_collect_entropy(oracle, bytes_generated, os, smp,
                                      TARGET_BYTES))
    /\ UNCHANGED <<reseed_interval_bytes, reseeds, requested, ncalls,
                   drbg_vars, th>>

NextCtor ==
    \/ \E R \in CtorIntervals : CtorEnter(R)
    \/ CtorSeed

SpecCtor == InitCtor /\ [][NextCtor]_vars

\* C1 (as claimed): a construction during which the OS entropy source is
\* readable completes, and the object it leaves has the interval it was
\* given, a DRBG, and bytes_generated = 0.
C1_ConstructionCompletes ==
    (ret.op = "__init__" /\ ret.err \notin {"running", "OSError"}) =>
        /\ ret.err = "none"
        /\ reseed_interval_bytes = ret.n
        /\ drbg # NoDrbg
        /\ bytes_generated = 0

(***************************************************************************)
(* SpecDrbg: two HMAC_DRBG objects constructed from one seed.  Calls are   *)
(* made on the first object in any order; the second object is given the   *)
(* same calls, in the same order, at any later time.  Both use the one     *)
(* hash function (oracle).                                                 *)
(***************************************************************************)
MaxOps == 3
DrbgSeeds == {<<101>>, <<102>>}
DrbgData == {<<>>, <<101>>, <<103>>}
DrbgSizes == {0, 8, 40}
Objects == {1, 2}

DrbgOf(d) == [K |-> d.K, V |-> d.V]

\* HMAC_DRBG(seed) twice
InitPair(d1, d2) ==
    /\ inst = <<DrbgOf(d1), DrbgOf(d2)>>
    /\ oracle = d2.tab

InitSecond(d1, seed) == InitPair(d1, HMAC_DRBG_init(d1.tab, seed))

\* ret keeps the constructor call: its seed and the state it built
InitDrbgPair ==
    /\ \E seed \in DrbgSeeds :
          /\ InitSecond(HMAC_DRBG_init(<<>>, seed), seed)
          /\ ret = [op |-> "HMAC_DRBG", in |-> seed, out |-> inst[1]]
    /\ ops = <<>>
    /\ outs = <<<<>>, <<>>>>
    /\ reseed_interval_bytes = UNSET
    /\ bytes_generated = UNSET
    /\ drbg = NoDrbg
    /\ reseeds = 0
    /\ requested = 0
    /\ ncalls = 0
    /\ th = <<>>

\* the first object takes any call; the second takes the next call of the
\* first object's history
MayCall(i, call) ==
    \/ i = 1 /\ Len(ops) < MaxOps
    \/ /\ i = 2
       /\ Len(outs[2]) < Len(ops)
       /\ ops[Len(outs[2]) + 1] = call

Called(i, call, s, out, blocks) ==
    /\ inst' = [inst EXCEPT ![i] = DrbgOf(s)]
    /\ oracle' = s.tab
    /\ outs' = [outs EXCEPT ![i] = Append(@, [call |-> call, out |-> out,
                                               blocks |-> blocks,
                                               K |-> s.K, V |-> s.V])]
    /\ ops' = IF i = 1 THEN Append(ops, call) ELSE ops
    /\ UNCHANGED <<facade_vars, th>>

Generated(i, call, g) == Called(i, call, g.s, g.out, g.blocks)

\* HMAC_DRBG.generate(n) on object i
DrbgGenerate(i, n) ==
    /\ MayCall(i, [op |-> "generate", n |-> n, data |-> <<>>])
    /\ Generated(i, [op |-> "generate", n |-> n, data |-> <<>>],
                 generate([K |-> inst[i].K, V |-> inst[i].V, tab |-> oracle], n))

\* HMAC_DRBG.reseed(data) on object i
DrbgReseed(i, data) ==
    /\ MayCall(i, [op |-> "reseed", n |-> 0, data |-> data])
    /\ Called(i, [op |-> "reseed", n |-> 0, data |-> data],
              drbg_reseed([K |-> inst[i].K, V |-> inst[i].V, tab |-> oracle], data),
              <<>>, <<>>)

NextDrbg ==
    \E i \in Objects :
        \/ \E n \in DrbgSizes : DrbgGenerate(i, n)
        \/ \E data \in DrbgData : DrbgReseed(i, data)

SpecDrbg == InitDrbgPair /\ [][NextDrbg]_vars

\* C7: two HMAC_DRBG objects constructed from the same seed and given the
\* same sequence of generate(n) and reseed(data) calls return the same bytes
\* at every call and hold the same (K, V) after every call.
C7_Reproducible ==
    inst # <<>> =>
        /\ \A j \in 1..Len(outs[2]) : outs[2][j] = outs[1][j]
        /\ Len(outs[2]) = Len(outs[1]) => inst[2] = inst[1]

\* the second object has been given three calls, the first a reseed and
\* the second a generate that returned bytes, and holds what the first holds
C7_Witness ==
    /\ inst # <<>>
    /\ Len(outs[2]) = 3
    /\ outs[2][1].call.op = "reseed"
    /\ outs[2][2].call.op = "generate"
    /\ outs[2][2].out # <<>>
    /\ outs[2][3].call.op = "generate"
    /\ outs[2][3] = outs[1][3]
    /\ inst[2] = inst[1]

BlocksOf(r) == {r.blocks[k] : k \in 1..Len(r.blocks)}

\* C8: on one HMAC_DRBG object, with calls made one at a time, no V value
\* that one generate call appended to its output is appended by another
\* generate call, and the V the object holds after a generate call is none
\* of the values that call appended.
C8_NoValueExposedTwice ==
    inst # <<>> =>
        \A i \in Objects :
            /\ \A a, b \in 1..Len(outs[i]) :
                  a # b => BlocksOf(outs[i][a]) \cap BlocksOf(outs[i][b]) = {}
            /\ \A a \in 1..Len(outs[i]) : outs[i][a].V \notin BlocksOf(outs[i][a])

\* one object has made three generate calls of two blocks each
C8_Witness ==
    /\ inst # <<>>
    /\ Len(outs[1]) = 3
    /\ \A a \in 1..3 : Len(outs[1][a].blocks) = 2

(***************************************************************************)
(* SpecThreads: random_bytes(n) called from threads on the one facade of   *)
(* the service (vqr-turn1.py line 13; its handlers are plain functions,    *)
(* which the server runs on worker threads).  A step is one source line's  *)
(* accesses to the shared attributes; the counter update of line 156 is a  *)
(* read and a write.  No line of the class takes a lock.                   *)
(*                                                                         *)
(* th[t] holds thread t's position and locals: arg (the n it calls with),  *)
(* n and out (lines 148-157), take, gn and gout (generate's n_bytes and    *)
(* out), i (the jitter loop's counter), smp (what the sources deliver to   *)
(* the collection cycle), data and after (_update's argument and where it  *)
(* returns to), tmp (the counter value read at line 156).                  *)
(***************************************************************************)
Threads == {1, 2}
SERVICE_INTERVAL == 1048576

\* what the sources deliver to a collection cycle a thread runs
ThreadSamples == {s \in Samples : s.t = 1}

NoThread ==
    [pc |-> "idle", arg |-> 0, n |-> 0, out |-> <<>>, take |-> 0, gn |-> 0,
     gout |-> <<>>, i |-> 0, smp |-> CHOOSE s \in Samples : TRUE, data |-> <<>>,
     after |-> "none", tmp |-> 0, err |-> "none"]

\* one thread calling alone, with intervals that make it reseed; or two
\* threads calling at once, with the interval the service sets
ThreadConfigs ==
    {[R |-> 0, n |-> <<a, UNSET>>] : a \in {0, 4097}}
    \cup {[R |-> 16, n |-> <<a, UNSET>>] : a \in {40, 4097}}
    \cup {[R |-> SERVICE_INTERVAL, n |-> <<a, b>>] : a \in {0, 40}, b \in {0, 40}}

InitThread(arg) ==
    IF arg = UNSET THEN [NoThread EXCEPT !.pc = "none"]
    ELSE [NoThread EXCEPT !.arg = arg]

InitThreads ==
    /\ \E cfg \in ThreadConfigs :
          /\ reseed_interval_bytes = cfg.R
          /\ th = [t \in Threads |-> InitThread(cfg.n[t])]
    /\ InitState(InitDrbg(_collect_entropy(<<>>, 0, TRUE,
                                           CHOOSE s \in Samples : s.t = 1,
                                           TARGET_BYTES)))
    /\ bytes_generated = 0
    /\ ret = NoRet
    /\ reseeds = 0
    /\ requested = 0
    /\ ncalls = 0
    /\ inst = <<>>
    /\ ops = <<>>
    /\ outs = <<>>

At(t, pc) == th[t].pc = pc

Goto(t, pc) == th' = [th EXCEPT ![t].pc = pc]

\* line 148
Call(t) ==
    /\ At(t, "idle")
    /\ th' = [th EXCEPT ![t].pc = "L149", ![t].n = th[t].arg, ![t].out = <<>>]
    /\ UNCHANGED <<oracle, facade_vars, drbg_vars>>

\* line 149, and line 158 when the loop is over
While(t) ==
    /\ At(t, "L149")
    /\ Goto(t, IF th[t].n > 0 THEN "L150" ELSE "done")
    /\ UNCHANGED <<oracle, facade_vars, drbg_vars>>

\* line 150
Check(t) ==
    /\ At(t, "L150")
    /\ Goto(t, IF bytes_generated >= reseed_interval_bytes THEN "L127" ELSE "L153")
    /\ UNCHANGED <<oracle, facade_vars, drbg_vars>>

\* lines 151, 144, 127, and 19-20 of the jitter sampler; os.urandom raises
\* when the OS source cannot be read
OsRead(t) ==
    /\ At(t, "L127")
    /\ \E os \in BOOLEAN, smp \in ThreadSamples :
          th' = [th EXCEPT ![t].pc = IF os THEN "L21" ELSE "done",
                           ![t].err = IF os THEN "none" ELSE "OSError",
                           ![t].smp = smp, ![t].i = 0]
    /\ UNCHANGED <<oracle, facade_vars, drbg_vars>>

\* a jitter loop whose turn does not advance
JitterIter_stuck(t) ==
    /\ At(t, "L21")
    /\ th[t].i < jitter_loops(TARGET_BYTES)
    /\ th' = [th EXCEPT ![t].i = th[t].i]
    /\ UNCHANGED <<oracle, facade_vars, drbg_vars>>

\* lines 21-25: one turn of `for _ in range(loops)`
JitterIter(t) ==
    /\ At(t, "L21")
    /\ th[t].i < jitter_loops(TARGET_BYTES)
    /\ th' = [th EXCEPT ![t].i = th[t].i + 1]
    /\ UNCHANGED <<oracle, facade_vars, drbg_vars>>

\* lines 26-27: the loop is over
JitterDone(t) ==
    /\ At(t, "L21")
    /\ th[t].i >= jitter_loops(TARGET_BYTES)
    /\ Goto(t, "L131")
    /\ UNCHANGED <<oracle, facade_vars, drbg_vars>>

Collected(t, ce) ==
    /\ th' = [th EXCEPT ![t].pc = "U100", ![t].data = <<ce.seed>>,
                        ![t].after = "L152", ![t].i = 0]
    /\ oracle' = ce.tab

\* lines 131-141 on the buffers read; line 140 reads bytes_generated
CollectRest(t) ==
    /\ At(t, "L131")
    /\ Collected(t, _collect_entropy(oracle, bytes_generated, TRUE, th[t].smp,
                                     TARGET_BYTES))
    /\ reseeds' = reseeds + 1
    /\ UNCHANGED <<reseed_interval_bytes, bytes_generated, drbg, ret, requested,
                   ncalls, drbg_vars>>

KeyStored(t, h, to) ==
    /\ drbg' = [drbg EXCEPT !.K = h.d]
    /\ oracle' = h.tab
    /\ Goto(t, to)
    /\ UNCHANGED <<reseed_interval_bytes, bytes_generated, ret, reseeds,
                   requested, ncalls, drbg_vars>>

\* self.K = self._hmac(self.K, self.V + tag + provided_data)
UpdateK(t, at, tag, to) ==
    /\ At(t, at)
    /\ KeyStored(t, _hmac(oracle, drbg.K, drbg.V \o <<tag>> \o th[t].data), to)

ValueStored(t, h, to) ==
    /\ drbg' = [drbg EXCEPT !.V = h.d]
    /\ oracle' = h.tab
    /\ Goto(t, to)
    /\ UNCHANGED <<reseed_interval_bytes, bytes_generated, ret, reseeds,
                   requested, ncalls, drbg_vars>>

\* self.V = self._hmac(self.K, self.V)
UpdateV(t, at, to) ==
    /\ At(t, at)
    /\ ValueStored(t, _hmac_V(oracle, drbg.K, drbg.V), to)

\* lines 100, 101, then 103, 104 under the test of line 102
U100(t) == UpdateK(t, "U100", 0, "U101")
U101(t) == UpdateV(t, "U101", IF th[t].data # <<>> THEN "U103" ELSE th[t].after)
U103(t) == UpdateK(t, "U103", 1, "U104")
U104(t) == UpdateV(t, "U104", th[t].after)

\* line 152
Reset(t) ==
    /\ At(t, "L152")
    /\ bytes_generated' = 0
    /\ Goto(t, "L153")
    /\ UNCHANGED <<oracle, reseed_interval_bytes, drbg, ret, reseeds, requested,
                   ncalls, drbg_vars>>

\* lines 153-154 and 110: take, and the call of generate(take)
Take(t) ==
    /\ At(t, "L153")
    /\ th' = [th EXCEPT ![t].pc = "L111", ![t].take = Min(th[t].n, CHUNK),
                        ![t].gn = Min(th[t].n, CHUNK), ![t].gout = <<>>]
    /\ UNCHANGED <<oracle, facade_vars, drbg_vars>>

\* line 111, and the call of self._update() of line 114 when the loop is over
GenWhile(t) ==
    /\ At(t, "L111")
    /\ IF Len(th[t].gout) * DIGEST_LEN < th[t].gn
       THEN Goto(t, "L112")
       ELSE th' = [th EXCEPT ![t].pc = "U100", ![t].data = <<>>,
                             ![t].after = "L115"]
    /\ UNCHANGED <<oracle, facade_vars, drbg_vars>>

\* line 112
GenHash(t) == UpdateV(t, "L112", "L113")

\* line 113: out += self.V
GenExtend(t) ==
    /\ At(t, "L113")
    /\ th' = [th EXCEPT ![t].pc = "L111", ![t].gout = Append(th[t].gout, drbg.V)]
    /\ UNCHANGED <<oracle, facade_vars, drbg_vars>>

\* lines 115 and 155
GenReturn(t) ==
    /\ At(t, "L115")
    /\ th' = [th EXCEPT ![t].pc = "L156",
                        ![t].out = th[t].out \o Truncate(th[t].gout, th[t].gn),
                        ![t].gout = <<>>]
    /\ UNCHANGED <<oracle, facade_vars, drbg_vars>>

\* line 156: the read of self.bytes_generated
CounterLoad(t) ==
    /\ At(t, "L156")
    /\ th' = [th EXCEPT ![t].pc = "L156w", ![t].tmp = bytes_generated]
    /\ UNCHANGED <<oracle, facade_vars, drbg_vars>>

\* line 156: the write of self.bytes_generated; line 157
CounterStore(t) ==
    /\ At(t, "L156w")
    /\ bytes_generated' = th[t].tmp + th[t].take
    /\ th' = [th EXCEPT ![t].pc = "L149", ![t].n = th[t].n - th[t].take,
                        ![t].tmp = 0]
    /\ UNCHANGED <<oracle, reseed_interval_bytes, drbg, ret, reseeds, requested,
                   ncalls, drbg_vars>>

ThreadStep(t) ==
    \/ Call(t)
    \/ While(t)
    \/ Check(t)
    \/ OsRead(t)
    \/ JitterIter(t)
    \/ JitterDone(t)
    \/ CollectRest(t)
    \/ U100(t)
    \/ U101(t)
    \/ U103(t)
    \/ U104(t)
    \/ Reset(t)
    \/ Take(t)
    \/ GenWhile(t)
    \/ GenHash(t)
    \/ GenExtend(t)
    \/ GenReturn(t)
    \/ CounterLoad(t)
    \/ CounterStore(t)

NextThreads == \E t \in Threads : ThreadStep(t)

SpecThreads == InitThreads /\ [][NextThreads]_vars

\* the scheduler runs some thread that can take a step
FairThreads == SpecThreads /\ WF_vars(NextThreads)

\* thread t is between the threshold check of line 150 and the counter
\* update of line 156
InSequence(t) ==
    th[t].pc \in {"L150", "L127", "L21", "L131", "U100", "U101", "U103", "U104",
                  "L152", "L153", "L111", "L112", "L113", "L115", "L156", "L156w"}

\* C3 (as claimed): the threshold-check / reseed / generate / counter-update
\* sequence of one caller never interleaves with that of another: at most
\* one thread at a time is inside it.
C3_SequenceSerialized ==
    th # <<>> =>
        \A t1, t2 \in Threads : (InSequence(t1) /\ InSequence(t2)) => t1 = t2

Calling(t) == th[t].pc \notin {"none", "idle", "done"}

Ended(t) == th[t].pc = "done"

\* C10: every random_bytes(n) call ends, for every n and every interval
\* (interval 0, with a reseed before every chunk, included): the chunk loop,
\* the block loop of generate and the jitter loop run out, and no step of a
\* call waits for another caller.  Each thread makes one call, so the calls
\* have all ended from some time on.
C10_EveryCallEnds == <>[](\A t \in Threads : ~Calling(t) /\ th[t].pc # "idle")

\* a call of two chunks with interval 0 has returned its bytes after two
\* collection cycles
C10_Witness ==
    /\ th # <<>>
    /\ th[1].pc = "done"
    /\ th[1].err = "none"
    /\ th[1].arg > CHUNK
    /\ reseed_interval_bytes = 0
    /\ reseeds = 2
    /\ BytesLen(th[1].out) = th[1].arg

(***************************************************************************)
(* random_u64 and random (lines 160-165) on the 8 bytes random_bytes(8)    *)
(* returned.  A 64-bit integer is the sequence of its 64 bits, most        *)
(* significant first; a float in [0, 1] is [carry, bits]: the number       *)
(* (carry * 2^64 + bits) / 2^64, of which at most MANT_DIG consecutive     *)
(* bits are significant.                                                   *)
(***************************************************************************)
U64_BITS == 64
MANT_DIG == 53

\* struct.unpack("!Q", b)[0]: big-endian
unpack_Q(b) == [i \in 1..U64_BITS |-> BitAt(b, i - 1)]

\* index of the most significant 1 bit, 0 when there is none
Leading(u) ==
    IF \E i \in 1..Len(u) : u[i] = 1
    THEN CHOOSE i \in 1..Len(u) : u[i] = 1 /\ \A j \in 1..(i - 1) : u[j] = 0
    ELSE 0

\* bits + 1 at position p, the bits after p being 0
AddAt(bits, p) ==
    IF \E j \in 1..p : bits[j] = 0
    THEN LET z == CHOOSE j \in 1..p : bits[j] = 0 /\ \A k \in (j + 1)..p : bits[k] = 1
         IN  [carry |-> 0,
              bits |-> [i \in 1..Len(bits) |->
                           IF i < z THEN bits[i] ELSE IF i = z THEN 1 ELSE 0]]
    ELSE [carry |-> 1, bits |-> [i \in 1..Len(bits) |-> 0]]

\* u / 2**64 in float arithmetic: u rounded to MANT_DIG significant bits,
\* to nearest, ties to even; the division by a power of two is then exact
true_div(u) ==
    LET L == Leading(u)
        last == L + MANT_DIG - 1
        kept == [i \in 1..Len(u) |-> IF i <= last THEN u[i] ELSE 0]
        sticky == \E j \in (last + 2)..Len(u) : u[j] = 1
    IN  IF L = 0 \/ last >= Len(u)
        THEN [carry |-> 0, bits |-> u]
        ELSE IF u[last + 1] = 1 /\ (sticky \/ u[last] = 1)
             THEN AddAt(kept, last)
             ELSE [carry |-> 0, bits |-> kept]

random_u64(b) == unpack_Q(b)

random(b) == true_div(random_u64(b))

(***************************************************************************)
(* SpecFn: one call of one of the module's functions on one input.  ret    *)
(* is [op, in, out].                                                       *)
(***************************************************************************)
NoCall == [op |-> "none", in |-> <<>>, out |-> <<>>]

InitFn ==
    /\ ret = NoCall
    /\ oracle = <<>>
    /\ reseed_interval_bytes = UNSET
    /\ bytes_generated = UNSET
    /\ drbg = NoDrbg
    /\ reseeds = 0
    /\ requested = 0
    /\ ncalls = 0
    /\ inst = <<>>
    /\ ops = <<>>
    /\ outs = <<>>
    /\ th = <<>>

\* what a call of one module-level function leaves alone
fn_idle ==
    <<oracle, reseed_interval_bytes, bytes_generated, drbg, reseeds, requested,
      ncalls, drbg_vars, th>>

\* the 8 bytes generated for a random() call
U64Bytes ==
    {<<a, a, c, a, c, c, d, e>> : a \in {0, 255}, c \in {0, 255},
                                  d \in {0, 251, 252, 255}, e \in {0, 1, 255}}
    \cup {<<0, 0, a, 32, c, 0, d, e>> : a \in {0, 1, 255}, c \in {0, 255},
                                        d \in {0, 1}, e \in {0, 1, 255}}

FnRandom ==
    /\ ret = NoCall
    /\ \E b \in U64Bytes : ret' = [op |-> "random", in |-> b, out |-> random(b)]
    /\ UNCHANGED fn_idle

\* byte strings given to _von_neumann
VNBytes == {0, 255, 85, 170, 27, 195, 102}
VNInputs ==
    {<<>>}
    \cup {<<a>> : a \in VNBytes}
    \cup {<<a, b>> : a \in VNBytes, b \in VNBytes}
    \cup {<<a, b, c>> : a \in VNBytes, b \in VNBytes, c \in VNBytes}
    \cup {os_urandom(n, 85) : n \in 4..9}
    \cup {os_urandom(n, 195) : n \in 4..9}

FnVonNeumann ==
    /\ ret = NoCall
    /\ \E b \in VNInputs :
           ret' = [op |-> "_von_neumann", in |-> b, out |-> _von_neumann(b)]
    /\ UNCHANGED fn_idle

\* raw buffers given to _health_checks
\* buffers whose longest run is 100 or 101 bits, inside and at the end
RunInputs ==
    {<<240>> \o os_urandom(12, 0) \o <<255>>,
     <<224>> \o os_urandom(12, 0) \o <<255>>,
     <<15>> \o os_urandom(12, 255) \o <<0>>,
     <<31>> \o os_urandom(12, 255) \o <<0>>,
     <<170, 240>> \o os_urandom(12, 0),
     <<170, 224>> \o os_urandom(12, 0)}

\* 1024-bit windows with 448, 447, 576, 577 and 512 ones and no long run
W448 == os_urandom(96, 85) \o os_urandom(32, 17)
W447 == os_urandom(96, 85) \o os_urandom(31, 17) \o <<1>>
W576 == os_urandom(96, 85) \o os_urandom(32, 119)
W577 == os_urandom(96, 85) \o os_urandom(31, 119) \o <<127>>
W512 == os_urandom(128, 85)

\* buffers of one and two windows, with and without a partial window after
WindowInputs ==
    {W448, W447, W576, W577,
     W512 \o W512, W448 \o W447, W447 \o W512, W512 \o W577,
     W448 \o os_urandom(32, 17) \o os_urandom(96, 85),
     W512 \o os_urandom(64, 1), W576 \o os_urandom(127, 0)}

HealthInputs ==
    {os_urandom(n, b) : n \in (0..16) \cup {128, 160}, b \in {0, 255, 85, 1}}
    \cup RunInputs \cup WindowInputs

FnHealth ==
    /\ ret = NoCall
    /\ \E raw \in HealthInputs :
           ret' = [op |-> "_health_checks", in |-> raw, out |-> _health_checks(raw)]
    /\ UNCHANGED fn_idle

\* sizes asked of _timing_jitter_bytes, and the digests of its clock reads
JitterSizes == {0, 1, 16, 31, 32, 33, 64}

FnJitter ==
    /\ ret = NoCall
    /\ \E n \in JitterSizes, b \in JitterBytes :
           ret' = [op |-> "_timing_jitter_bytes", in |-> n,
                   out |-> _timing_jitter_bytes(n, os_urandom(DIGEST_LEN, b))]
    /\ UNCHANGED fn_idle

\* _collect_entropy on an object whose counter is bg
FnCollect ==
    /\ ret = NoCall
    /\ \E os \in BOOLEAN, smp \in CtorSamples, bg \in {0, CHUNK} :
           ret' = [op |-> "_collect_entropy",
                   in |-> [os |-> os, smp |-> smp, bg |-> bg],
                   out |-> _collect_entropy(<<>>, bg, os, smp, TARGET_BYTES)]
    /\ UNCHANGED fn_idle

NextFn ==
    \/ FnRandom
    \/ FnVonNeumann
    \/ FnHealth
    \/ FnJitter
    \/ FnCollect

SpecFn == InitFn /\ [][NextFn]_vars

\* C11: for every 64-bit value u read big-endian from the 8 generated bytes,
\* random() returns u / 2^64, a value below 1: the value 1 is never returned.
C11_BelowOne ==
    ret.op = "random" =>
        /\ ret.out.carry = 0
        /\ ret.out.bits = unpack_Q(ret.in)

(***************************************************************************)
(* Claims about _collect_entropy, under SpecFn.                            *)
(***************************************************************************)
\* the buffer of lines 128-131 for one sample, and the buffer after line 135
RawOf(smp) ==
    os_urandom(TARGET_BYTES, smp.e1)
        \o _timing_jitter_bytes(TARGET_BYTES, os_urandom(DIGEST_LEN, smp.jit))

SupplementedOf(smp) ==
    IF _health_checks(RawOf(smp)).ok
    THEN RawOf(smp)
    ELSE RawOf(smp) \o os_urandom(TARGET_BYTES, smp.e3)

CollectCalled == ret.op = "_collect_entropy" /\ ret.in.os

\* the bytes given to the first sha3_256 of the call (line 138)
HashedBuffer == SubSeq(ret.out.tab[1], 3, Len(ret.out.tab[1]))

IsSeed(c) == c.err = "none" /\ c.seed \in 2..(Len(c.tab) + 1)

\* C12: with the OS source readable and the output counter assigned, entropy
\* collection returns a seed whether the health check passed or failed; the
\* check ran once, on the buffer before any supplement; on failure exactly
\* target_bytes more OS bytes are appended, no error reaches the caller, and
\* extraction and hashing work on the supplemented buffer.
C12_HealthFailureSupplemented ==
    CollectCalled =>
        /\ IsSeed(ret.out)
        /\ ret.out.checked_len = Len(RawOf(ret.in.smp))
        /\ ret.out.health = _health_checks(RawOf(ret.in.smp)).msg
        /\ ret.out.raw_len =
              Len(RawOf(ret.in.smp))
                  + (IF ret.out.health = "ok" THEN 0 ELSE TARGET_BYTES)
        /\ ret.out.debiased_len = Len(_von_neumann(SupplementedOf(ret.in.smp)))
        /\ HashedBuffer \in {SupplementedOf(ret.in.smp),
                             _von_neumann(SupplementedOf(ret.in.smp))}

C12_Witness ==
    /\ CollectCalled
    /\ ret.out.health = "Repetition count too high"
    /\ ret.out.err = "none"
    /\ ret.out.raw_len = Len(RawOf(ret.in.smp)) + TARGET_BYTES
    /\ ret.out.hashed = "debiased"

\* C13: when the extractor emits nothing for the collected buffer the buffer
\* itself is hashed and a seed is still returned; when it emits at least one
\* byte the debiased bytes, not the raw ones, are hashed.
C13_HashDebiasedOrRaw ==
    CollectCalled =>
        /\ IsSeed(ret.out)
        /\ ret.out.tab[1][2] = Len(HashedBuffer)
        /\ HashedBuffer =
              IF _von_neumann(SupplementedOf(ret.in.smp)) = <<>>
              THEN SupplementedOf(ret.in.smp)
              ELSE _von_neumann(SupplementedOf(ret.in.smp))

C13_Witness ==
    /\ CollectCalled
    /\ ret.out.debiased_len = 0
    /\ ret.out.hashed = "raw"
    /\ ret.out.err = "none"
    /\ HashedBuffer = SupplementedOf(ret.in.smp)

(***************************************************************************)
(* Claims about _von_neumann, _health_checks and _timing_jitter_bytes.     *)
(***************************************************************************)
\* the bits the extraction rule emits for the pairs p, p + 1, ... of `bits`
RECURSIVE EmittedFrom(_, _)
EmittedFrom(bits, p) ==
    IF 2 * p + 1 >= Len(bits) * 8
    THEN <<>>
    ELSE (IF BitAt(bits, 2 * p) = 0 /\ BitAt(bits, 2 * p + 1) = 1 THEN <<0>>
          ELSE IF BitAt(bits, 2 * p) = 1 /\ BitAt(bits, 2 * p + 1) = 0 THEN <<1>>
          ELSE <<>>)
         \o EmittedFrom(bits, p + 1)

VonNeumannCalled == ret.op = "_von_neumann"

\* C14: the output of _von_neumann holds, MSB first and in input order, one
\* bit per unequal pair of the input (0 for 01, 1 for 10) and nothing for
\* equal pairs; 01 repeated k times gives ceil(k/8) zero bytes; only equal
\* pairs give the empty output.
C14_PairsExtracted ==
    VonNeumannCalled =>
        /\ Len(ret.out) = (Len(EmittedFrom(ret.in, 0)) + 7) \div 8
        /\ \A j \in 1..Len(EmittedFrom(ret.in, 0)) :
              BitAt(ret.out, j - 1) = EmittedFrom(ret.in, 0)[j]
        /\ (\A i \in 1..Len(ret.in) : ret.in[i] = 85)
              => ret.out = [j \in 1..((4 * Len(ret.in) + 7) \div 8) |-> 0]
        /\ (\A i \in 1..Len(ret.in) : ret.in[i] \in {0, 255, 195})
              => ret.out = <<>>

C14_Witness ==
    /\ VonNeumannCalled
    /\ ret.in = <<85, 170, 102>>
    /\ ret.out = <<15, 80>>

HealthCalled == ret.op = "_health_checks"

AllZero(raw) == raw # <<>> /\ \A i \in 1..Len(raw) : raw[i] = 0

FailsRCT(hc) == ~hc.ok /\ hc.msg = "Repetition count too high"

\* C15 as stated: every non-empty all-zero buffer fails the Repetition Count
\* Test.
C15_AllZeroFailsRCT ==
    (HealthCalled /\ AllZero(ret.in)) => FailsRCT(ret.out)

\* C15: an all-zero buffer fails the Repetition Count Test exactly when it
\* has more than RCT_BOUND bits, the run reported being its whole length; a
\* shorter all-zero buffer passes the health checks.
C15_LongAllZeroFailsRCT ==
    (HealthCalled /\ AllZero(ret.in)) =>
        IF Len(ret.in) * 8 > RCT_BOUND
        THEN FailsRCT(ret.out) /\ ret.out.val = Len(ret.in) * 8
        ELSE ret.out.ok

C15_Witness ==
    /\ HealthCalled
    /\ AllZero(ret.in)
    /\ Len(ret.in) = 13
    /\ FailsRCT(ret.out)

\* C16: _timing_jitter_bytes(n_bytes) returns exactly n_bytes bytes.
C16_ExactSize ==
    ret.op = "_timing_jitter_bytes" => Len(ret.out) = ret.in


(***************************************************************************)
(* Claims about concurrent callers, under SpecThreads.                     *)
(***************************************************************************)
\* the V value a segment of a caller's output was cut from
BlockOf(seg) == SubSeq(seg, 1, 3)

\* C17: two callers of random_bytes running concurrently on one facade never
\* receive the same DRBG output block: no V value emitted to one caller is
\* also emitted to the other.
C17_NoSharedBlock ==
    th # <<>> =>
        \A a \in 1..Len(th[1].out), b \in 1..Len(th[2].out) :
            BlockOf(th[1].out[a]) # BlockOf(th[2].out[b])


(***************************************************************************)
(* Claims about HMAC_DRBG's operations, under SpecDrbg.  The HMAC values   *)
(* are read from the hash function as it stands (oracle).                  *)
(***************************************************************************)
\* HMAC(K, V || tag || data) and HMAC(K, V)
HmacK(K, V, tag, data) == _hmac(oracle, K, V \o <<tag>> \o data).d
HmacV(K, V) == _hmac_V(oracle, K, V).d

\* the state object i held when its j-th call was made
PreOf(i, j) ==
    IF j = 1 THEN ret.out ELSE [K |-> outs[i][j - 1].K, V |-> outs[i][j - 1].V]

PostOf(i, j) == [K |-> outs[i][j].K, V |-> outs[i][j].V]

ReseedCalls == {c \in Objects \X (1..MaxOps) :
                   c[2] <= Len(outs[c[1]]) /\ outs[c[1]][c[2]].call.op = "reseed"}

GenerateCalls == {c \in Objects \X (1..MaxOps) :
                     c[2] <= Len(outs[c[1]]) /\ outs[c[1]][c[2]].call.op = "generate"}

\* C18: update(data) sets K' = HMAC(K, V || 0x00 || data), V' = HMAC(K', V),
\* and goes on to K'' = HMAC(K', V' || 0x01 || data), V'' = HMAC(K'', V')
\* exactly when data is non-empty; with empty data the state is (K', V').
C18_UpdateRounds ==
    inst # <<>> =>
        \A c \in ReseedCalls :
            LET p == PreOf(c[1], c[2])
                data == outs[c[1]][c[2]].call.data
                K1 == HmacK(p.K, p.V, 0, data)
                V1 == HmacV(K1, p.V)
                K2 == HmacK(K1, V1, 1, data)
                V2 == HmacV(K2, V1)
            IN  /\ <<K1, V1>> # <<K2, V2>>
                /\ PostOf(c[1], c[2]) =
                      IF data # <<>> THEN [K |-> K2, V |-> V2] ELSE [K |-> K1, V |-> V1]

\* one object was updated with empty data and then with non-empty data
C18_Witness ==
    /\ inst # <<>>
    /\ Len(outs[1]) >= 2
    /\ outs[1][1].call.op = "reseed" /\ outs[1][1].call.data = <<>>
    /\ outs[1][2].call.op = "reseed" /\ outs[1][2].call.data # <<>>

\* C19: generate(n) makes ceil(n/32) steps V <- HMAC(K, V) under the K it
\* started with, returns the first n bytes of the successive V values, and
\* then updates once with empty data from the last V, also when n = 0.
C19_GenerateSteps ==
    inst # <<>> =>
        \A c \in GenerateCalls :
            LET p == PreOf(c[1], c[2])
                e == outs[c[1]][c[2]]
                n == e.call.n
                m == (n + DIGEST_LEN - 1) \div DIGEST_LEN
                Vm == IF m = 0 THEN p.V ELSE e.blocks[m]
                K1 == HmacK(p.K, Vm, 0, <<>>)
            IN  /\ Len(e.blocks) = m
                /\ \A k \in 1..m :
                      /\ e.blocks[k] = HmacV(p.K, IF k = 1 THEN p.V ELSE e.blocks[k - 1])
                      /\ e.blocks[k][1] = p.K
                /\ Len(e.out) = m
                /\ \A k \in 1..m :
                      e.out[k] = e.blocks[k]
                                   \o <<IF k * DIGEST_LEN <= n THEN DIGEST_LEN
                                        ELSE n % DIGEST_LEN>>
                /\ BytesLen(e.out) = n
                /\ PostOf(c[1], c[2]) = [K |-> K1, V |-> HmacV(K1, Vm)]
                /\ PostOf(c[1], c[2]) # p

\* one object made generate(40), two steps, and then generate(0)
C19_Witness ==
    /\ inst # <<>>
    /\ Len(outs[1]) >= 2
    /\ outs[1][1].call = [op |-> "generate", n |-> 40, data |-> <<>>]
    /\ Len(outs[1][1].blocks) = 2
    /\ outs[1][2].call = [op |-> "generate", n |-> 0, data |-> <<>>]
    /\ outs[1][2].out = <<>>

\* one round of update, and update, from state s
RoundOf(s, tag, data) ==
    [K |-> HmacK(s.K, s.V, tag, data),
     V |-> HmacV(HmacK(s.K, s.V, tag, data), s.V)]

UpdateOf(s, data) ==
    IF data # <<>>
    THEN RoundOf(RoundOf(s, 0, data), 1, data)
    ELSE RoundOf(s, 0, data)

\* C20: HMAC_DRBG(seed) is update(seed) applied once to the fixed all-zero K
\* and the fixed V, so both objects built from one seed start in the same
\* state; reseed(seed) is the same update applied to the state the object
\* holds, so its result differs from a fresh construction and differs
\* between different prior states.
C20_SeedAndReseed ==
    inst # <<>> =>
        /\ ret.out = UpdateOf([K |-> ZERO_KEY, V |-> ONES_V], ret.in)
        /\ \A i \in Objects : outs[i] = <<>> => inst[i] = ret.out
        /\ \A c \in ReseedCalls :
              /\ PostOf(c[1], c[2]) =
                    UpdateOf(PreOf(c[1], c[2]), outs[c[1]][c[2]].call.data)
              /\ PostOf(c[1], c[2]) #
                    UpdateOf([K |-> ZERO_KEY, V |-> ONES_V], outs[c[1]][c[2]].call.data)
        /\ \A c, d \in ReseedCalls :
              (/\ outs[c[1]][c[2]].call.data = outs[d[1]][d[2]].call.data
               /\ PreOf(c[1], c[2]) # PreOf(d[1], d[2]))
                  => PostOf(c[1], c[2]) # PostOf(d[1], d[2])

\* one object was reseeded twice with the seed it was constructed from
C20_Witness ==
    /\ inst # <<>>
    /\ Len(outs[1]) >= 2
    /\ outs[1][1].call.op = "reseed" /\ outs[1][1].call.data = ret.in
    /\ outs[1][2].call.op = "reseed" /\ outs[1][2].call.data = ret.in


(***************************************************************************)
(* Claims about the last byte of _von_neumann and the two health tests.    *)
(***************************************************************************)
\* C21: when the number of emitted bits is not a multiple of 8, the last
\* output byte holds the remaining bits left-padded with zeros: the zeros in
\* its most significant positions, the emitted bits in its least significant.
C21_LeftPadded ==
    (VonNeumannCalled /\ Len(EmittedFrom(ret.in, 0)) % 8 # 0) =>
        LET e == EmittedFrom(ret.in, 0)
            r == Len(e) % 8
            last == <<ret.out[Len(ret.out)]>>
        IN  /\ \A j \in 0..(8 - r - 1) : BitAt(last, j) = 0
            /\ \A j \in 1..r : BitAt(last, 8 - r + j - 1) = e[Len(e) - r + j]

\* raw has L consecutive equal bits somewhere
HasRun(raw, L) ==
    \E s \in 0..(Len(raw) * 8 - L) :
        \A j \in s..(s + L - 1) : BitAt(raw, j) = BitAt(raw, s)

\* C22: the Repetition Count Test fails a buffer exactly when its bits hold a
\* run of more than RCT_BOUND equal bits, wherever the run lies with respect
\* to the bytes: a longest run of 100 passes, a run of 101 fails.
C22_RunAboveBoundFails ==
    HealthCalled => (FailsRCT(ret.out) <=> HasRun(ret.in, RCT_BOUND + 1))

C22_Witness ==
    /\ HealthCalled
    /\ HasRun(ret.in, RCT_BOUND)
    /\ ~HasRun(ret.in, RCT_BOUND + 1)
    /\ ret.in[1] = 240
    /\ ret.out.ok

\* the full windows of raw, and the ones count of window w
WindowsOf(raw) == 0..(((Len(raw) * 8) \div WINDOW) - 1)

OnesOf(raw, w) ==
    Cardinality({j \in (w * WINDOW)..(w * WINDOW + WINDOW - 1) : BitAt(raw, j) = 1})

OutOfBand(raw, w) == OnesOf(raw, w) < APT_LOW \/ OnesOf(raw, w) > APT_HIGH

FailsAPT(hc) == ~hc.ok /\ hc.msg = "Adaptive proportion out of range"

\* C23: the Adaptive Proportion Test looks at the consecutive, non-overlapping
\* full windows of WINDOW bits; a window with fewer than 448 or more than 576
\* ones fails the check, the first such window being the one reported; counts
\* of 448 and 576 pass, and so does a buffer of alternating bits.
C23_WindowOutOfBandFails ==
    HealthCalled =>
        /\ (\E w \in WindowsOf(ret.in) : OutOfBand(ret.in, w)) => ~ret.out.ok
        /\ ~HasRun(ret.in, RCT_BOUND + 1) =>
              /\ ret.out.ok <=> \A w \in WindowsOf(ret.in) : ~OutOfBand(ret.in, w)
              /\ ~ret.out.ok =>
                    /\ FailsAPT(ret.out)
                    /\ \E w \in WindowsOf(ret.in) :
                          /\ OutOfBand(ret.in, w)
                          /\ \A v \in 0..(w - 1) : ~OutOfBand(ret.in, v)
                          /\ ret.out.val = OnesOf(ret.in, w)
        /\ (\A i \in 1..Len(ret.in) : ret.in[i] = 85) => ret.out.ok

\* a first window of exactly 448 ones passed and the second, of 447, failed
C23_Witness ==
    /\ HealthCalled
    /\ WindowsOf(ret.in) = {0, 1}
    /\ OnesOf(ret.in, 0) = APT_LOW
    /\ OnesOf(ret.in, 1) = APT_LOW - 1
    /\ FailsAPT(ret.out)
    /\ ret.out.val = APT_LOW - 1

\* C24: _health_checks passes exactly when both tests pass; when it fails, the
\* message names the Repetition Count Test if the run bound is exceeded and
\* the Adaptive Proportion Test otherwise.
C24_PassIffBothPass ==
    HealthCalled =>
        /\ ret.out.ok <=>
              /\ ~HasRun(ret.in, RCT_BOUND + 1)
              /\ \A w \in WindowsOf(ret.in) : ~OutOfBand(ret.in, w)
        /\ ~ret.out.ok =>
              IF HasRun(ret.in, RCT_BOUND + 1)
              THEN FailsRCT(ret.out)
              ELSE FailsAPT(ret.out)

\* a buffer that fails both tests was reported for its repetition
C24_Witness ==
    /\ HealthCalled
    /\ HasRun(ret.in, RCT_BOUND + 1)
    /\ \E w \in WindowsOf(ret.in) : OutOfBand(ret.in, w)
    /\ FailsRCT(ret.out)


(***************************************************************************)
(* Claims about the counter and the collection cycles of the facade.        *)
(***************************************************************************)
\* the reseeds a random_bytes call made, as positions of its log
ReseedEvents == {i \in 1..Len(ret.log) : ret.log[i].ev = "reseed"}

\* C25: the counter mixed into the freshness tag of a seed is the number of
\* bytes the facade has output since construction: in the facade's first
\* call it is the number of bytes the call has generated so far, and between
\* two reseeds of one call it grows by the bytes generated between them.
C25_CounterIsCumulative ==
    ret.op = "random_bytes" =>
        /\ ncalls = 1 =>
              \A i \in ReseedEvents : ret.log[i].bg = ret.log[i].emitted
        /\ \A i \in ReseedEvents, j \in ReseedEvents :
              i < j => ret.log[j].bg - ret.log[i].bg
                          = ret.log[j].emitted - ret.log[i].emitted

\* C26: in every collection cycle of the facade the buffer given to the
\* health check is 64 OS bytes followed by 64 jitter bytes, 1024 bits, so the
\* Adaptive Proportion Test has a full window of it.
C26_CheckedBufferIsOneWindow ==
    CollectCalled =>
        /\ ret.out.e2_len = TARGET_BYTES
        /\ ret.out.checked_len = 2 * TARGET_BYTES
        /\ WindowsOf(RawOf(ret.in.smp)) # {}


\* C27: with calls made one at a time on a facade whose interval R is at
\* least 1, bytes_generated never exceeds R + CHUNK - 1, and no generate call
\* takes the bytes output since the last threshold reseed above that.
C27_CounterBounded ==
    reseed_interval_bytes >= 1 =>
        /\ bytes_generated <= reseed_interval_bytes + CHUNK - 1
        /\ \A i \in 1..Len(ret.log) :
              ret.log[i].ev = "generate" =>
                  ret.log[i].bg + ret.log[i].take <= reseed_interval_bytes + CHUNK - 1

\* the counter stands at exactly R + CHUNK - 1
C27_Witness ==
    /\ reseed_interval_bytes >= 1
    /\ ret.op = "random_bytes"
    /\ bytes_generated = reseed_interval_bytes + CHUNK - 1

Failed == ret.op = "random_bytes" /\ ret.err # "none"

\* C28: when entropy collection raises during a threshold reseed inside
\* random_bytes, the caller gets the error and no bytes; K, V and the counter
\* are as the generate calls before the reseed (if any) left them, the
\* counter still at or above the interval; and every random_bytes(n), n > 0,
\* that starts with the counter at or above the interval begins with a
\* reseed attempt: it either fails before generating or reseeds first.
C28_FailedReseedIsRetried ==
    /\ Failed =>
          /\ ret.err = "OSError"
          /\ ret.out = <<>>
          /\ bytes_generated >= reseed_interval_bytes
          /\ \A i \in 1..Len(ret.log) : ret.log[i].ev = "generate"
          /\ ret.log = <<>> =>
                /\ drbg = [K |-> ret.K0, V |-> ret.V0]
                /\ bytes_generated = ret.bg0
          /\ Len(ret.log) = 1 =>
                /\ bytes_generated = ret.bg0 + ret.log[1].take
                /\ drbg = DrbgOf(generate([K |-> ret.K0, V |-> ret.V0, tab |-> oracle],
                                          ret.log[1].take).s)
    /\ (ret.op = "random_bytes" /\ ret.n > 0 /\ ret.bg0 >= reseed_interval_bytes) =>
          \/ Failed /\ ret.log = <<>>
          \/ ret.err = "none" /\ ret.log[1].ev = "reseed"

\* a reseed raised after the call's first chunk had been generated
C28_Witness ==
    /\ Failed
    /\ Len(ret.log) = 1
    /\ ret.log[1].ev = "generate"
    /\ bytes_generated >= reseed_interval_bytes
    /\ drbg # [K |-> ret.K0, V |-> ret.V0]

\* C29: random_bytes(n) with 0 <= n <= CHUNK that starts with the counter
\* below the interval collects no entropy, does not reseed, and adds exactly n
\* to the counter; random_bytes(0) changes neither K, V nor the counter and
\* does not reseed, whatever the counter.
C29_NoReseedBelowThreshold ==
    ret.op = "random_bytes" =>
        /\ (ret.n <= CHUNK /\ ret.bg0 < reseed_interval_bytes) =>
              /\ ret.err = "none"
              /\ ~HasEvent(ret.log, "reseed")
              /\ ret.last = NoCollect
              /\ bytes_generated = ret.bg0 + ret.n
        /\ ret.n = 0 =>
              /\ ret.err = "none"
              /\ ret.log = <<>>
              /\ ret.last = NoCollect
              /\ drbg = [K |-> ret.K0, V |-> ret.V0]
              /\ bytes_generated = ret.bg0

\* random_bytes(0) returned on a facade whose counter was past its interval
C29_Witness ==
    /\ Returned
    /\ ret.n = 0
    /\ reseed_interval_bytes >= 1
    /\ ret.bg0 >= reseed_interval_bytes
    /\ bytes_generated = ret.bg0

\* C30: a direct reseed() call that returns has mixed the derived seed into
\* K and V and leaves bytes_generated and reseed_interval_bytes as they were;
\* bytes_generated goes down only in a random_bytes call that made a
\* threshold reseed.
C30_DirectReseedKeepsCounter ==
    [][/\ ret'.op = "reseed" =>
          /\ bytes_generated' = bytes_generated
          /\ reseed_interval_bytes' = reseed_interval_bytes
          /\ ret'.err = "none" =>
                /\ drbg' # drbg
                /\ drbg' = DrbgOf(drbg_reseed([K |-> drbg.K, V |-> drbg.V, tab |-> oracle'],
                                              <<ret'.last.seed>>))
       /\ bytes_generated' < bytes_generated =>
             /\ ret'.op = "random_bytes"
             /\ HasEvent(ret'.log, "reseed")]_vars

\* a direct reseed returned on a facade that had output bytes
C30_Witness ==
    /\ ret.op = "reseed"
    /\ ret.err = "none"
    /\ ret.bg0 > 0
    /\ bytes_generated = ret.bg0
    /\ drbg # [K |-> ret.K0, V |-> ret.V0]

====
